---- MODULE Spec2Model ----
(***************************************************************************)
(* The Serum swap client (src/lib/index.js, src/lib/utils.js) as a state   *)
(* machine.  Every async function of class Swap is an activation frame on  *)
(* the call stack of a client task; every `await` is a step boundary.      *)
(* The collaborators (RPC connection, provider, on-chain programs) are the *)
(* environment: their answers are drawn nondeterministically.              *)
(***************************************************************************)
EXTENDS Integers, Sequences, FiniteSets, TLC

VARIABLES
    stack,      \* per task: the chain of pending async activations, caller first
    chain,      \* open-orders accounts on chain for (market, wallet), in query order
    minted,     \* number of keypairs minted so far by `new Account()`
    stats,      \* per task: collaborator invocations made by the current top-level call
                \* and the signers last handed to provider.simulate
    offCurve,   \* nonces for which PublicKey.createProgramAddress succeeds for the market
    gv          \* a stand-alone activation of getVaultOwnerAndNonce, one loop turn per step

vars == <<stack, chain, minted, stats, offCurve, gv>>

(***************************************************************************)
(* Bounds of the model.                                                    *)
(***************************************************************************)
MaxHundreds == 1        \* simulated output amounts are 0 and 100k, 100k+1 for k in 1..MaxHundreds
MaxLogs == 2            \* longest simulated log list
MaxMinted == 2          \* no new top-level call once this many keypairs were minted
MaxExternal == 1        \* open-orders accounts created on chain by other clients

Procs == {"a", "b"}
MainCaller == "a"

(***************************************************************************)
(* Optional values (JavaScript undefined / a value).                       *)
(***************************************************************************)
None == <<>>
Some(x) == <<x>>
Get(o) == o[1]

(***************************************************************************)
(* Addresses.                                                              *)
(***************************************************************************)
Addr(kind, n) == [kind |-> kind, n |-> n]

DEX_PID == Addr("program", 1)
SWAP_PID == Addr("program", 2)
TOKEN_PROGRAM_ID == Addr("program", 3)
ASSOCIATED_TOKEN_PROGRAM_ID == Addr("program", 4)
SYSVAR_RENT_PUBKEY == Addr("sysvar", 1)
WalletPublicKey == Addr("owner", 1)
MarketAddress == Addr("market", 1)

Side == [Bid |-> "bid", Ask |-> "ask"]

(***************************************************************************)
(* bn.js: new BN(number) keeps `number & 0x3ffffff` (the number modulo     *)
(* 67108864, fraction dropped) for a number below 2^26.  The literal is    *)
(* given in tenths (99.5 is 995 tenths).  BN div truncates.                *)
(***************************************************************************)
SlippageLiteralTenths == 995
SlippageDivisor == 100

BNFromNumber(tenths) == (tenths \div 10) % 67108864

DefaultMinExpected_NoScale(estimated) == (estimated * SlippageLiteralTenths) \div SlippageDivisor

DefaultMinExpected(estimated) ==
    (estimated * BNFromNumber(SlippageLiteralTenths)) \div BNFromNumber(SlippageDivisor * 10)

(***************************************************************************)
(* utils.getVaultOwnerAndNonce                                             *)
(***************************************************************************)
NonceLimit == 255

CreateProgramAddressOk(valid, nonce) == nonce \in valid

VaultLoopContinues_Short(nonce) == nonce < NonceLimit - 1

VaultLoopContinues(nonce) == nonce < NonceLimit

\* The nonces at which a loop turn runs and the derivation succeeds; the loop
\* counts upwards from 0 and returns at the first of them.
VaultHits(valid) ==
    { n \in 0..NonceLimit : VaultLoopContinues(n) /\ CreateProgramAddressOk(valid, n) }

getVaultOwnerAndNonce(valid) ==
    IF VaultHits(valid) # {}
    THEN LET nonce == CHOOSE n \in VaultHits(valid) : \A m \in VaultHits(valid) : n <= m
         IN  [ok |-> TRUE, vaultOwner |-> Addr("pda", nonce), nonce |-> nonce, err |-> ""]
    ELSE [ok |-> FALSE, vaultOwner |-> Addr("pda", NonceLimit), nonce |-> NonceLimit,
          err |-> "Unable to find nonce"]

(***************************************************************************)
(* utils.getAssociatedTokenAddress                                         *)
(***************************************************************************)
getAssociatedTokenAddress(mint, owner) == Addr("ata", mint)

(***************************************************************************)
(* Requests (SwapParams).  Mints are 1 and 2.                              *)
(***************************************************************************)
MinChoices == {None, Some(0), Some(7)}
FromWalletChoices == {None, Some(Addr("wallet", 1))}
ToWalletChoices == {None, Some(Addr("wallet", 2))}
ReferralChoices == {None, Some(Addr("referral", 1))}
MintPairs == {<<1, 2>>, <<2, 1>>}
AmountChoices == {1000}

Requests ==
    { [fromMint |-> m[1], toMint |-> m[2], fromWallet |-> fw, toWallet |-> tw,
       amount |-> amt, market |-> MarketAddress,
       minExpectedSwapAmount |-> mn, referral |-> rf] :
        m \in MintPairs, fw \in FromWalletChoices, tw \in ToWalletChoices,
        amt \in AmountChoices, mn \in MinChoices, rf \in ReferralChoices }

TopLevelOps == {"swap", "estimate", "swapIxs"}

(***************************************************************************)
(* Simulation responses: provider.simulate resolves to undefined or to a   *)
(* value with an err flag and a log list (None when logs is null).  A log  *)
(* line is its leading text and, for an event line, the toAmount field of  *)
(* the DidSwap event its payload decodes to.                               *)
(***************************************************************************)
EventPrefix == "Program log: 4ZfIrPLY4R"

ToAmounts == {0} \cup UNION { {100 * k, 100 * k + 1} : k \in 1..MaxHundreds }

LogLines ==
    { [prefix |-> EventPrefix, toAmount |-> a] : a \in ToAmounts }
    \cup { [prefix |-> "Program log: Instruction", toAmount |-> 0] }

RECURSIVE SeqsUpTo(_, _)
SeqsUpTo(S, n) ==
    IF n = 0 THEN {<<>>}
    ELSE LET shorter == SeqsUpTo(S, n - 1)
         IN  shorter \cup { Append(q, x) : q \in shorter, x \in S }

LogLists == SeqsUpTo(LogLines, MaxLogs)

RespUndefined == [defined |-> FALSE, err |-> FALSE, logs |-> None]

SimResponses ==
    {RespUndefined}
    \cup { [defined |-> TRUE, err |-> TRUE, logs |-> l] :
             l \in {None, Some(<<>>), Some(<<[prefix |-> EventPrefix, toAmount |-> 100]>>)} }
    \cup { [defined |-> TRUE, err |-> FALSE, logs |-> None] }
    \cup { [defined |-> TRUE, err |-> FALSE, logs |-> Some(l)] : l \in LogLists }

(***************************************************************************)
(* Activation frames.                                                      *)
(***************************************************************************)
Pending == [kind |-> "pending", err |-> ""]
Returned == [kind |-> "value", err |-> ""]
Thrown(e) == [kind |-> "throw", err |-> e]

NewSwap(params) ==
    [fn |-> "swap", pc |-> "start", out |-> Pending, params |-> params,
     built |-> FALSE, ixs |-> <<>>, signers |-> <<>>]

NewEstimate(params) ==
    [fn |-> "estimate", pc |-> "start", out |-> Pending, params |-> params,
     built |-> FALSE, ixs |-> <<>>, signers |-> <<>>,
     resp |-> None, decodes |-> 0, toAmount |-> 0]

NewSwapIxs(params) ==
    [fn |-> "swapIxs", pc |-> "start", out |-> Pending, params |-> params,
     minExpectedSwapAmount |-> params.minExpectedSwapAmount,
     estimated |-> None,
     fromWallet |-> params.fromWallet, toWallet |-> params.toWallet,
     ixs |-> <<>>, signers |-> <<>>]

NewSwapDirectIxs(args) ==
    [fn |-> "swapDirectIxs", pc |-> "loadMarket", out |-> Pending, args |-> args,
     marketClient |-> None, vaultSigner |-> None,
     looked |-> FALSE, found |-> <<>>, openOrders |-> None,
     ixs |-> <<>>, signers |-> <<>>]

NewFrame(op, params) ==
    CASE op = "swap" -> NewSwap(params)
      [] op = "estimate" -> NewEstimate(params)
      [] op = "swapIxs" -> NewSwapIxs(params)

Depth(p) == Len(stack[p])
Top(p) == stack[p][Depth(p)]
Caller(p) == stack[p][Depth(p) - 1]
Idle(p) == stack[p] = <<>>

TopIs(p, fn, pc) == /\ Depth(p) >= 1
                    /\ Top(p).fn = fn
                    /\ Top(p).pc = pc

\* The top activation has settled and its caller is parked at pc.
Resumes(p, fn, pc, callee, kind) ==
    /\ Depth(p) >= 2
    /\ Top(p).fn = callee
    /\ Top(p).pc = "done"
    /\ Top(p).out.kind = kind
    /\ Caller(p).fn = fn
    /\ Caller(p).pc = pc

SetTop(p, f) == stack' = [stack EXCEPT ![p] = [@ EXCEPT ![Len(@)] = f]]
CallFrom(p, f, g) == stack' = [stack EXCEPT ![p] = Append([@ EXCEPT ![Len(@)] = f], g)]
ReturnTo(p, f) == stack' = [stack EXCEPT ![p] = Append(SubSeq(@, 1, Len(@) - 2), f)]

Done(f, out) == [f EXCEPT !.pc = "done", !.out = out]

Count(p, what) == stats' = [stats EXCEPT ![p][what] = @ + 1]
NoStats == [sims |-> 0, sends |-> 0, lookups |-> 0, mints |-> 0, simulated |-> <<>>]

(***************************************************************************)
(* Instructions and batches.                                               *)
(***************************************************************************)
MarketLoad(address) ==
    [address |-> address,
     requestQueue |-> Addr("requestQueue", address.n),
     eventQueue |-> Addr("eventQueue", address.n),
     bidsAddress |-> Addr("bids", address.n),
     asksAddress |-> Addr("asks", address.n),
     baseVault |-> Addr("baseVault", address.n),
     quoteVault |-> Addr("quoteVault", address.n)]

makeCreateAccountTransaction(market, owner, newAccount, programId) ==
    [type |-> "createAccount", market |-> market, owner |-> owner,
     newAccount |-> newAccount, programId |-> programId]

OrderPayer_Swapped(side, pcWallet, coinWallet) ==
    IF side = Side.Bid THEN coinWallet ELSE pcWallet

OrderPayer(side, pcWallet, coinWallet) ==
    IF side = Side.Bid THEN pcWallet ELSE coinWallet

RemainingAccounts(referral) ==
    IF referral # None THEN <<Get(referral)>> ELSE <<>>

InstructionSwap(side, amount, minExpectedSwapAmount, marketClient, vaultSigner, openOrders, pcWallet, coinWallet, referral) ==
    [type |-> "swap", side |-> side, amount |-> amount,
     minExpectedSwapAmount |-> minExpectedSwapAmount,
     market |-> marketClient.address,
     requestQueue |-> marketClient.requestQueue,
     eventQueue |-> marketClient.eventQueue,
     bids |-> marketClient.bidsAddress,
     asks |-> marketClient.asksAddress,
     coinVault |-> marketClient.baseVault,
     pcVault |-> marketClient.quoteVault,
     vaultSigner |-> vaultSigner,
     openOrders |-> openOrders,
     orderPayerTokenAccount |-> OrderPayer(side, pcWallet, coinWallet),
     coinWallet |-> coinWallet,
     pcWallet |-> pcWallet,
     authority |-> WalletPublicKey,
     dexProgram |-> DEX_PID,
     tokenProgram |-> TOKEN_PROGRAM_ID,
     rent |-> SYSVAR_RENT_PUBKEY,
     remainingAccounts |-> RemainingAccounts(referral)]

IxsOfType(ixs, t) == SelectSeq(ixs, LAMBDA ix : ix.type = t)
IndexesOfType(ixs, t) == { i \in 1..Len(ixs) : ixs[i].type = t }
SwapIxOf(ixs) == IxsOfType(ixs, "swap")[1]

(***************************************************************************)
(* A client starts a top-level call (one at a time per task).              *)
(***************************************************************************)
Call(p) ==
    /\ p = MainCaller
    /\ \A q \in Procs : Idle(q)
    /\ minted < MaxMinted
    /\ \E op \in TopLevelOps, params \in Requests :
          stack' = [stack EXCEPT ![p] = <<NewFrame(op, params)>>]
    /\ UNCHANGED <<chain, minted, stats, offCurve, gv>>

(***************************************************************************)
(* Swap.swap                                                               *)
(***************************************************************************)
SwapStart(p) ==
    /\ TopIs(p, "swap", "start")
    /\ CallFrom(p, [Top(p) EXCEPT !.pc = "awaitSwapIxs"], NewSwapIxs(Top(p).params))
    /\ UNCHANGED <<chain, minted, stats, offCurve, gv>>

\* swapIxs resolved: build the transaction and hand it to provider.send.
SendsOn_Any(kind) == TRUE

SendsOn(kind) == kind = "value"

SwapSend(p) ==
    /\ \E kind \in {"value", "throw"} :
          /\ SendsOn(kind)
          /\ Resumes(p, "swap", "awaitSwapIxs", "swapIxs", kind)
    /\ ReturnTo(p, [Caller(p) EXCEPT !.pc = "awaitSend", !.built = TRUE,
                                     !.ixs = Top(p).ixs, !.signers = Top(p).signers])
    /\ Count(p, "sends")
    /\ UNCHANGED <<chain, minted, offCurve, gv>>

\* provider.send settles; a confirmed transaction creates the accounts of its
\* creation instructions on chain.
Created(ixs) ==
    LET creates == IxsOfType(ixs, "createAccount")
    IN  [i \in 1..Len(creates) |-> creates[i].newAccount]

SwapSent(p) ==
    /\ TopIs(p, "swap", "awaitSend")
    /\ \E ok \in BOOLEAN :
          IF ok
          THEN /\ SetTop(p, Done(Top(p), Returned))
               /\ chain' = chain \o Created(Top(p).ixs)
          ELSE /\ SetTop(p, Done(Top(p), Thrown("SendTransactionError")))
               /\ chain' = chain
    /\ UNCHANGED <<minted, stats, offCurve, gv>>

(***************************************************************************)
(* Swap.estimate                                                           *)
(***************************************************************************)
EstimateParams_UnlessGiven(params) ==
    IF params.minExpectedSwapAmount = None
    THEN [params EXCEPT !.minExpectedSwapAmount = Some(1)]
    ELSE params

EstimateParams_Drop(params) == [params EXCEPT !.minExpectedSwapAmount = None]

EstimateParams(params) == [params EXCEPT !.minExpectedSwapAmount = Some(1)]

EstimateStart(p) ==
    /\ TopIs(p, "estimate", "start")
    /\ CallFrom(p, [Top(p) EXCEPT !.pc = "awaitSwapIxs"],
                NewSwapIxs(EstimateParams(Top(p).params)))
    /\ UNCHANGED <<chain, minted, stats, offCurve, gv>>

\* The provider call estimate makes with the transaction.
EstimateInvokes_Send == "sends"

EstimateInvokes == "sims"

\* swapIxs resolved: build the transaction and hand it to provider.simulate.
EstimateSimulate(p) ==
    /\ Resumes(p, "estimate", "awaitSwapIxs", "swapIxs", "value")
    /\ ReturnTo(p, [Caller(p) EXCEPT !.pc = "awaitSimulate", !.built = TRUE,
                                     !.ixs = Top(p).ixs, !.signers = Top(p).signers])
    /\ stats' = [stats EXCEPT ![p][EstimateInvokes] = @ + 1, ![p].simulated = Top(p).signers]
    /\ UNCHANGED <<chain, minted, offCurve, gv>>

SimulationUnusable_NoErrCheck(resp) == (~resp.defined) \/ resp.logs = None

SimulationUnusable(resp) == (~resp.defined) \/ resp.err \/ resp.logs = None

StartsWithEventPrefix(log) == log.prefix = EventPrefix

\* logs.filter(startsWith).map(decode): every matching line is decoded.
DecodedEvents(logs) ==
    LET matching == SelectSeq(logs, StartsWithEventPrefix)
    IN  [i \in 1..Len(matching) |-> [toAmount |-> matching[i].toAmount]]

\* provider.simulate settles (or rejects); check the response, decode the logs.
EstimateDecode(p) ==
    /\ TopIs(p, "estimate", "awaitSimulate")
    /\ \/ SetTop(p, Done(Top(p), Thrown("RpcError")))
       \/ \E resp \in SimResponses :
             LET f == [Top(p) EXCEPT !.resp = Some(resp)]
             IN  IF SimulationUnusable(resp)
                 THEN SetTop(p, Done(f, Thrown("Unable to simulate swap")))
                 ELSE LET events == DecodedEvents(Get(resp.logs))
                          g == [f EXCEPT !.decodes = Len(events)]
                      IN  IF events = <<>>
                          THEN \* didSwapEvent is undefined: reading .toAmount throws
                               SetTop(p, Done(g, Thrown("TypeError")))
                          ELSE SetTop(p, Done([g EXCEPT !.toAmount = events[1].toAmount],
                                              Returned))
    /\ UNCHANGED <<chain, minted, stats, offCurve, gv>>

(***************************************************************************)
(* Swap.swapIxs                                                            *)
(***************************************************************************)
NeedsEstimate_Falsy(minExpectedSwapAmount) ==
    minExpectedSwapAmount = None \/ minExpectedSwapAmount = Some(0)

NeedsEstimate(minExpectedSwapAmount) == minExpectedSwapAmount = None

SwapIxsStart(p) ==
    /\ TopIs(p, "swapIxs", "start")
    /\ IF NeedsEstimate(Top(p).minExpectedSwapAmount)
       THEN CallFrom(p, [Top(p) EXCEPT !.pc = "awaitEstimate"], NewEstimate(Top(p).params))
       ELSE SetTop(p, [Top(p) EXCEPT !.pc = "fromWallet"])
    /\ UNCHANGED <<chain, minted, stats, offCurve, gv>>

\* estimate resolved: the default is taken off the estimate.
SwapIxsDefault(p) ==
    /\ Resumes(p, "swapIxs", "awaitEstimate", "estimate", "value")
    /\ ReturnTo(p, [Caller(p) EXCEPT
                      !.pc = "fromWallet",
                      !.estimated = Some(Top(p).toAmount),
                      !.minExpectedSwapAmount = Some(DefaultMinExpected(Top(p).toAmount))])
    /\ UNCHANGED <<chain, minted, stats, offCurve, gv>>

SwapIxsFromWallet(p) ==
    /\ TopIs(p, "swapIxs", "fromWallet")
    /\ IF Top(p).fromWallet = None
       THEN \E ok \in BOOLEAN :
               IF ok
               THEN SetTop(p, [Top(p) EXCEPT
                      !.pc = "toWallet",
                      !.fromWallet = Some(getAssociatedTokenAddress(Top(p).params.fromMint,
                                                                    WalletPublicKey))])
               ELSE SetTop(p, Done(Top(p), Thrown("Unable to find a viable program address nonce")))
       ELSE SetTop(p, [Top(p) EXCEPT !.pc = "toWallet"])
    /\ UNCHANGED <<chain, minted, stats, offCurve, gv>>

DirectArgs_Ask(f, toWallet) ==
    [coinWallet |-> toWallet,
     pcWallet |-> Get(f.fromWallet),
     side |-> Side.Ask,
     amount |-> f.params.amount,
     market |-> f.params.market,
     minExpectedSwapAmount |-> Get(f.minExpectedSwapAmount),
     referral |-> f.params.referral]

DirectArgs(f, toWallet) ==
    [coinWallet |-> toWallet,
     pcWallet |-> Get(f.fromWallet),
     side |-> Side.Bid,
     amount |-> f.params.amount,
     market |-> f.params.market,
     minExpectedSwapAmount |-> Get(f.minExpectedSwapAmount),
     referral |-> f.params.referral]

SwapIxsToWallet(p) ==
    /\ TopIs(p, "swapIxs", "toWallet")
    /\ IF Top(p).toWallet = None
       THEN \E ok \in BOOLEAN :
               IF ok
               THEN LET ata == getAssociatedTokenAddress(Top(p).params.toMint, WalletPublicKey)
                    IN  CallFrom(p, [Top(p) EXCEPT !.pc = "awaitDirect", !.toWallet = Some(ata)],
                                 NewSwapDirectIxs(DirectArgs(Top(p), ata)))
               ELSE SetTop(p, Done(Top(p), Thrown("Unable to find a viable program address nonce")))
       ELSE CallFrom(p, [Top(p) EXCEPT !.pc = "awaitDirect"],
                     NewSwapDirectIxs(DirectArgs(Top(p), Get(Top(p).toWallet))))
    /\ UNCHANGED <<chain, minted, stats, offCurve, gv>>

SwapIxsReturn(p) ==
    /\ Resumes(p, "swapIxs", "awaitDirect", "swapDirectIxs", "value")
    /\ ReturnTo(p, Done([Caller(p) EXCEPT !.ixs = Top(p).ixs, !.signers = Top(p).signers],
                        Returned))
    /\ UNCHANGED <<chain, minted, stats, offCurve, gv>>

(***************************************************************************)
(* Swap.swapDirectIxs                                                      *)
(***************************************************************************)
DirectLoadMarket(p) ==
    /\ TopIs(p, "swapDirectIxs", "loadMarket")
    /\ \E ok \in BOOLEAN :
          IF ok
          THEN SetTop(p, [Top(p) EXCEPT !.pc = "vault",
                                        !.marketClient = Some(MarketLoad(Top(p).args.market))])
          ELSE SetTop(p, Done(Top(p), Thrown("Market not found")))
    /\ UNCHANGED <<chain, minted, stats, offCurve, gv>>

DirectVault(p) ==
    /\ TopIs(p, "swapDirectIxs", "vault")
    /\ LET r == getVaultOwnerAndNonce(offCurve)
       IN  IF r.ok
           THEN SetTop(p, [Top(p) EXCEPT !.pc = "findOpenOrders",
                                         !.vaultSigner = Some(r.vaultOwner)])
           ELSE SetTop(p, Done(Top(p), Thrown(r.err)))
    /\ UNCHANGED <<chain, minted, stats, offCurve, gv>>

FirstOpenOrders_Last(found) == IF found # <<>> THEN Some(found[Len(found)]) ELSE None

FirstOpenOrders(found) == IF found # <<>> THEN Some(found[1]) ELSE None

\* new Account(): a keypair no earlier call of it produced.
NewAccount_Shared(count) == Addr("key", 1)

NewAccount(count) == Addr("key", count + 1)

NeedsOpenOrders_Always(openOrders) == TRUE

NeedsOpenOrders(openOrders) == openOrders = None

SwapInstructionFor(f, openOrders) ==
    InstructionSwap(f.args.side, f.args.amount, f.args.minExpectedSwapAmount,
                    Get(f.marketClient), Get(f.vaultSigner), openOrders,
                    f.args.pcWallet, f.args.coinWallet, f.args.referral)

CloseEnabled_On == TRUE

CloseEnabled == FALSE

InstructionCloseAccount(openOrders, market) ==
    [type |-> "closeAccount", openOrders |-> openOrders, authority |-> WalletPublicKey,
     destination |-> WalletPublicKey, market |-> market, dexProgram |-> DEX_PID]

\* ixs.push(swap), then the (disabled) close, then return [ixs, signers].
Finished_CreateLast(f, created, openOrders) ==
    Done([f EXCEPT !.ixs = <<SwapInstructionFor(f, openOrders)>> \o f.ixs], Returned)

Finished(f, created, openOrders) ==
    LET withSwap == Append(f.ixs, SwapInstructionFor(f, openOrders))
        withClose == IF CloseEnabled /\ created
                     THEN Append(withSwap, InstructionCloseAccount(openOrders, f.args.market))
                     ELSE withSwap
    IN  Done([f EXCEPT !.ixs = withClose], Returned)

\* OpenOrders.findForMarketAndOwner settles; without an account a keypair is
\* minted and makeCreateAccountTransaction is awaited.
DirectFindOpenOrders(p) ==
    /\ TopIs(p, "swapDirectIxs", "findOpenOrders")
    /\ \/ /\ SetTop(p, Done(Top(p), Thrown("RpcError")))
          /\ Count(p, "lookups")
          /\ UNCHANGED minted
       \/ LET found == chain
              openOrders == FirstOpenOrders(found)
              f == [Top(p) EXCEPT !.looked = TRUE, !.found = found, !.openOrders = openOrders]
          IN  IF NeedsOpenOrders(openOrders)
              THEN LET oo == NewAccount(minted)
                   IN  /\ SetTop(p, [f EXCEPT !.pc = "createAccount",
                                              !.signers = Append(@, oo),
                                              !.openOrders = Some(oo)])
                       /\ minted' = minted + 1
                       /\ stats' = [stats EXCEPT ![p].lookups = @ + 1, ![p].mints = @ + 1]
              ELSE /\ SetTop(p, Finished(f, FALSE, Get(openOrders)))
                   /\ Count(p, "lookups")
                   /\ UNCHANGED minted
    /\ UNCHANGED <<chain, offCurve, gv>>

DirectCreateAccount(p) ==
    /\ TopIs(p, "swapDirectIxs", "createAccount")
    /\ \E ok \in BOOLEAN :
          IF ok
          THEN LET oo == Get(Top(p).openOrders)
                   create == makeCreateAccountTransaction(Get(Top(p).marketClient).address,
                                                          WalletPublicKey, oo, DEX_PID)
               IN  SetTop(p, Finished([Top(p) EXCEPT !.ixs = Append(@, create)], TRUE, oo))
          ELSE SetTop(p, Done(Top(p), Thrown("RpcError")))
    /\ UNCHANGED <<chain, minted, stats, offCurve, gv>>

(***************************************************************************)
(* Promise plumbing: a rejection passes through every awaiting caller (no  *)
(* function of class Swap has a try/catch); the outermost promise settles. *)
(***************************************************************************)
Propagate(p) ==
    /\ Depth(p) >= 2
    /\ Top(p).pc = "done"
    /\ Top(p).out.kind = "throw"
    /\ ReturnTo(p, Done(Caller(p), Top(p).out))
    /\ UNCHANGED <<chain, minted, stats, offCurve, gv>>

Finish(p) ==
    /\ Depth(p) = 1
    /\ Top(p).pc = "done"
    /\ stack' = [stack EXCEPT ![p] = <<>>]
    /\ stats' = [stats EXCEPT ![p] = NoStats]
    /\ UNCHANGED <<chain, minted, offCurve, gv>>

(***************************************************************************)
(* Environment: another client creates an open-orders account for the same *)
(* wallet and market.                                                      *)
(***************************************************************************)
Externals == { i \in 1..Len(chain) : chain[i].kind = "ext" }

ExternalCreate ==
    /\ Cardinality(Externals) < MaxExternal
    /\ chain' = Append(chain, Addr("ext", Cardinality(Externals) + 1))
    /\ UNCHANGED <<stack, minted, stats, offCurve, gv>>

(***************************************************************************)
(* getVaultOwnerAndNonce, one loop turn per step.                          *)
(***************************************************************************)
GvIdle == [pc |-> "idle", nonce |-> 0, tried |-> <<>>, ok |-> FALSE,
           vaultOwner |-> Addr("pda", NonceLimit), err |-> ""]

GvCall ==
    /\ gv.pc = "idle"
    /\ gv' = [gv EXCEPT !.pc = "loop"]
    /\ UNCHANGED <<stack, chain, minted, stats, offCurve>>

GvTurn ==
    /\ gv.pc = "loop"
    /\ VaultLoopContinues(gv.nonce)
    /\ IF CreateProgramAddressOk(offCurve, gv.nonce)
       THEN gv' = [gv EXCEPT !.pc = "done", !.tried = Append(@, gv.nonce), !.ok = TRUE,
                             !.vaultOwner = Addr("pda", gv.nonce)]
       ELSE gv' = [gv EXCEPT !.tried = Append(@, gv.nonce), !.nonce = @ + 1]
    /\ UNCHANGED <<stack, chain, minted, stats, offCurve>>

GvExhausted ==
    /\ gv.pc = "loop"
    /\ ~VaultLoopContinues(gv.nonce)
    /\ gv' = [gv EXCEPT !.pc = "done", !.err = "Unable to find nonce"]
    /\ UNCHANGED <<stack, chain, minted, stats, offCurve>>

(***************************************************************************)
(* Specifications.                                                         *)
(***************************************************************************)
MarketCurves == {{0}, {2, 254}, {}}
SampleNonces == {0, 1, 2, 253, 254, 255}

Init ==
    /\ stack = [p \in Procs |-> <<>>]
    /\ chain = <<>>
    /\ minted = 0
    /\ stats = [p \in Procs |-> NoStats]
    /\ offCurve \in MarketCurves
    /\ gv = GvIdle

Step(p) ==
    \/ SwapStart(p)
    \/ SwapSend(p)
    \/ SwapSent(p)
    \/ EstimateStart(p)
    \/ EstimateSimulate(p)
    \/ EstimateDecode(p)
    \/ SwapIxsStart(p)
    \/ SwapIxsDefault(p)
    \/ SwapIxsFromWallet(p)
    \/ SwapIxsToWallet(p)
    \/ SwapIxsReturn(p)
    \/ DirectLoadMarket(p)
    \/ DirectVault(p)
    \/ DirectFindOpenOrders(p)
    \/ DirectCreateAccount(p)
    \/ Propagate(p)
    \/ Finish(p)

Next ==
    \/ \E p \in Procs : Call(p)
    \/ \E p \in Procs : Step(p)
    \/ ExternalCreate

Spec == Init /\ [][Next]_vars

InitVault ==
    /\ stack = [p \in Procs |-> <<>>]
    /\ chain = <<>>
    /\ minted = 0
    /\ stats = [p \in Procs |-> NoStats]
    /\ offCurve \in SUBSET SampleNonces
    /\ gv = GvIdle

NextVault ==
    \/ GvCall
    \/ GvTurn
    \/ GvExhausted

SpecVault == InitVault /\ [][NextVault]_vars

\* Two tasks have each called the builder and run concurrently.
ConcurrentRequests ==
    { r \in Requests : r.fromMint = 1 /\ r.fromWallet = None /\ r.toWallet = None
                         /\ r.referral = None /\ r.minExpectedSwapAmount # Some(0) }

InitConc ==
    /\ stack \in [Procs -> { <<NewSwapIxs(r)>> : r \in ConcurrentRequests }]
    /\ chain = <<>>
    /\ minted = 0
    /\ stats = [p \in Procs |-> NoStats]
    /\ offCurve = {0}
    /\ gv = GvIdle

StepConc(p) ==
    \/ EstimateStart(p)
    \/ EstimateSimulate(p)
    \/ EstimateDecode(p)
    \/ SwapIxsStart(p)
    \/ SwapIxsDefault(p)
    \/ SwapIxsFromWallet(p)
    \/ SwapIxsToWallet(p)
    \/ SwapIxsReturn(p)
    \/ DirectLoadMarket(p)
    \/ DirectVault(p)
    \/ DirectFindOpenOrders(p)
    \/ DirectCreateAccount(p)
    \/ Propagate(p)

NextConc == \E p \in Procs : StepConc(p)

SpecConc == InitConc /\ [][NextConc]_vars

\* swapDirectIxs on its own, for either side of the market.
DirectCalls ==
    { [coinWallet |-> cw, pcWallet |-> pw, side |-> sd, amount |-> amt,
       market |-> MarketAddress, minExpectedSwapAmount |-> mn, referral |-> rf] :
        cw \in {Addr("wallet", 2), Addr("ata", 2)}, pw \in {Addr("wallet", 1), Addr("ata", 1)},
        sd \in {Side.Bid, Side.Ask}, amt \in AmountChoices, mn \in {0, 1, 7},
        rf \in ReferralChoices }

InitDirect ==
    /\ \E args \in DirectCalls :
          stack = [p \in Procs |-> IF p = MainCaller THEN <<NewSwapDirectIxs(args)>> ELSE <<>>]
    /\ chain = <<>>
    /\ minted = 0
    /\ stats = [p \in Procs |-> NoStats]
    /\ offCurve \in MarketCurves
    /\ gv = GvIdle

StepDirect(p) ==
    \/ DirectLoadMarket(p)
    \/ DirectVault(p)
    \/ DirectFindOpenOrders(p)
    \/ DirectCreateAccount(p)

NextDirect ==
    \/ \E p \in Procs : StepDirect(p)
    \/ ExternalCreate

SpecDirect == InitDirect /\ [][NextDirect]_vars

(***************************************************************************)
(* Properties.                                                             *)
(***************************************************************************)
FramesOf(fn) ==
    UNION { { stack[p][i] : i \in { j \in 1..Len(stack[p]) : stack[p][j].fn = fn } } : p \in Procs }

ReturnedFrom(f) == f.pc = "done" /\ f.out.kind = "value"

\* swapIxs activations that returned a batch after defaulting the minimum.
DefaultedBatches ==
    { f \in FramesOf("swapIxs") :
        ReturnedFrom(f) /\ f.params.minExpectedSwapAmount = None }

\* C1: with minExpectedSwapAmount omitted, the minimum-output field of the
\* emitted swap instruction is floor(estimate * 995 / 1000).
C1_DefaultIsHalfPercentOff ==
    \A f \in DefaultedBatches :
        SwapIxOf(f.ixs).minExpectedSwapAmount = (Get(f.estimated) * 995) \div 1000

\* C2: with minExpectedSwapAmount omitted, the minimum-output field of the
\* emitted swap instruction never exceeds the estimated output.
C2_DefaultAtMostEstimate ==
    \A f \in DefaultedBatches :
        /\ f.estimated # None
        /\ SwapIxOf(f.ixs).minExpectedSwapAmount <= Get(f.estimated)

C2_Witness ==
    \E f \in DefaultedBatches :
        /\ Get(f.estimated) > 100
        /\ SwapIxOf(f.ixs).minExpectedSwapAmount < Get(f.estimated)

\* Batches returned by the builder.
BuiltBatches == { f \in FramesOf("swapDirectIxs") : ReturnedFrom(f) }

Creations(f) == Len(IxsOfType(f.ixs, "createAccount"))

\* C3: a returned batch has exactly one creation instruction and one new
\* signer when the open-orders lookup was empty, and none of either when the
\* lookup returned accounts.
C3_CreationIffNoOpenOrders ==
    \A f \in BuiltBatches :
        /\ f.looked
        /\ f.found = <<>> => Creations(f) = 1 /\ Len(f.signers) = 1
        /\ f.found # <<>> => Creations(f) = 0 /\ Len(f.signers) = 0

C3_Witness ==
    \E f \in BuiltBatches :
        /\ f.found = <<>>
        /\ Creations(f) = 1
        /\ Len(f.signers) = 1

\* C4: in every returned batch the swap instruction occurs exactly once and
\* every creation instruction stands at a smaller index than the swap
\* instruction, which references the created account.
C4_CreationBeforeSwap ==
    \A f \in BuiltBatches \cup { g \in FramesOf("swapIxs") : ReturnedFrom(g) } :
        /\ Cardinality(IndexesOfType(f.ixs, "swap")) = 1
        /\ \A c \in IndexesOfType(f.ixs, "createAccount") :
              \A w \in IndexesOfType(f.ixs, "swap") :
                 /\ c < w
                 /\ f.ixs[w].openOrders = f.ixs[c].newAccount

C4_Witness ==
    \E f \in BuiltBatches :
        /\ Len(f.ixs) = 2
        /\ f.ixs[1].type = "createAccount"
        /\ f.ixs[2].type = "swap"
        /\ f.ixs[2].openOrders = f.ixs[1].newAccount

\* Estimates whose simulation answered.
Answered == { f \in FramesOf("estimate") : f.resp # None }

NoEventLine(resp) ==
    /\ resp.defined
    /\ ~resp.err
    /\ resp.logs # None
    /\ \A i \in 1..Len(Get(resp.logs)) : Get(resp.logs)[i].prefix # EventPrefix

\* C5: when the simulation succeeds with logs of which no line starts with
\* the event prefix, estimate fails with the error of a failed dry run.
C5_NoEventIsSimulationFailed ==
    \A f \in Answered :
        NoEventLine(Get(f.resp)) =>
            /\ f.pc = "done"
            /\ f.out = Thrown("Unable to simulate swap")

\* C6: when the dry-run response is undefined, carries an error or has no
\* logs, estimate fails with the simulation error and decodes no log.
C6_UnusableSimulationFails ==
    \A f \in Answered :
        LET resp == Get(f.resp)
        IN  ((~resp.defined) \/ resp.err \/ resp.logs = None) =>
                /\ f.pc = "done"
                /\ f.out = Thrown("Unable to simulate swap")
                /\ f.decodes = 0

C6_Witness ==
    \E f \in Answered :
        /\ Get(f.resp).defined
        /\ Get(f.resp).err
        /\ Get(f.resp).logs # None
        /\ f.out = Thrown("Unable to simulate swap")

\* C7: a swap call whose batch building failed fails too and never reaches
\* provider.send; whatever is sent is a complete batch.
BuilderFns == {"swapIxs", "estimate", "swapDirectIxs"}

C7_NoSendAfterFailedBuild ==
    \A p \in Procs :
        (Depth(p) >= 1 /\ stack[p][1].fn = "swap") =>
            LET f == stack[p][1]
            IN  /\ (\E i \in 2..Depth(p) :
                       stack[p][i].fn \in BuilderFns /\ stack[p][i].out.kind = "throw")
                      => stats[p].sends = 0
                /\ (f.pc = "done" /\ ~f.built)
                      => f.out.kind = "throw" /\ stats[p].sends = 0
                /\ stats[p].sends > 0
                      => /\ f.built
                         /\ Cardinality(IndexesOfType(f.ixs, "swap")) = 1

C7_Witness ==
    \E p \in Procs :
        /\ Depth(p) = 1
        /\ stack[p][1].fn = "swap"
        /\ stack[p][1].pc = "done"
        /\ stack[p][1].out = Thrown("Unable to simulate swap")
        /\ stack[p][1].params.minExpectedSwapAmount = None
        /\ stats[p].sends = 0
        /\ stats[p].sims = 1

\* C8: getVaultOwnerAndNonce tries the nonces 0, 1, 2, ... in this order, at
\* most 255 of them, returns the smallest nonce below 255 whose derivation
\* succeeds and fails with the exhaustion error when there is none.
C8_FirstNonceOrExhausted ==
    /\ \A i \in 1..Len(gv.tried) : gv.tried[i] = i - 1
    /\ Len(gv.tried) <= 255
    /\ gv.pc = "done" =>
          IF \E n \in 0..254 : n \in offCurve
          THEN /\ gv.ok
               /\ gv.nonce \in offCurve
               /\ \A n \in 0..254 : n \in offCurve => gv.nonce <= n
               /\ gv.vaultOwner = Addr("pda", gv.nonce)
               /\ Len(gv.tried) = gv.nonce + 1
          ELSE /\ ~gv.ok
               /\ gv.err = "Unable to find nonce"
               /\ Len(gv.tried) = 255
    /\ gv.pc = "done" =>
          LET r == getVaultOwnerAndNonce(offCurve)
          IN  /\ r.ok = gv.ok
              /\ r.err = gv.err
              /\ r.ok => r.nonce = gv.nonce /\ r.vaultOwner = gv.vaultOwner

C8_Witness ==
    /\ gv.pc = "done"
    /\ gv.ok
    /\ gv.nonce = 254
    /\ Len(gv.tried) = 255

\* C9: with minExpectedSwapAmount supplied, swapIxs runs no estimate and no
\* simulation, and the swap instruction carries the supplied value.
C9_SuppliedMinimumUsedAsIs ==
    \A p \in Procs :
        \A i \in 1..Depth(p) :
            LET f == stack[p][i]
            IN  (f.fn = "swapIxs" /\ f.params.minExpectedSwapAmount # None) =>
                    /\ f.pc # "awaitEstimate"
                    /\ f.estimated = None
                    /\ i < Depth(p) => stack[p][i + 1].fn # "estimate"
                    /\ (i = 1 \/ stack[p][i - 1].fn = "swap") => stats[p].sims = 0
                    /\ ReturnedFrom(f) =>
                          SwapIxOf(f.ixs).minExpectedSwapAmount
                              = Get(f.params.minExpectedSwapAmount)

C9_Witness ==
    \E p \in Procs :
        /\ Depth(p) = 1
        /\ stack[p][1].fn = "swapIxs"
        /\ ReturnedFrom(stack[p][1])
        /\ stack[p][1].params.minExpectedSwapAmount = Some(0)
        /\ SwapIxOf(stack[p][1].ixs).minExpectedSwapAmount = 0
        /\ stats[p].sims = 0

\* C10: the batch estimate simulates has minimum-output 1 whatever the caller
\* supplied, and its side, amount, wallets, market accounts and referral are
\* those of the request.
Simulated == { f \in FramesOf("estimate") : f.built }

WalletOr(given, mint) ==
    IF given # None THEN Get(given) ELSE Addr("ata", mint)

C10_SimulatedBatchIsRequestWithFloorOne ==
    \A f \in Simulated :
        LET ix == SwapIxOf(f.ixs)
            rq == f.params
        IN  /\ Cardinality(IndexesOfType(f.ixs, "swap")) = 1
            /\ ix.minExpectedSwapAmount = 1
            /\ ix.side = "bid"
            /\ ix.amount = rq.amount
            /\ ix.pcWallet = WalletOr(rq.fromWallet, rq.fromMint)
            /\ ix.coinWallet = WalletOr(rq.toWallet, rq.toMint)
            /\ ix.orderPayerTokenAccount = ix.pcWallet
            /\ ix.market = rq.market
            /\ ix.requestQueue = Addr("requestQueue", rq.market.n)
            /\ ix.eventQueue = Addr("eventQueue", rq.market.n)
            /\ ix.bids = Addr("bids", rq.market.n)
            /\ ix.asks = Addr("asks", rq.market.n)
            /\ ix.coinVault = Addr("baseVault", rq.market.n)
            /\ ix.pcVault = Addr("quoteVault", rq.market.n)
            /\ ix.remainingAccounts = rq.referral

C10_Witness ==
    \E f \in Simulated :
        /\ f.pc = "awaitSimulate"
        /\ f.params.minExpectedSwapAmount = Some(7)
        /\ f.params.referral # None
        /\ SwapIxOf(f.ixs).minExpectedSwapAmount = 1

\* C11: two concurrent builder calls that both find no open-orders account
\* each hold a keypair of their own and a creation instruction for it: no
\* signer or created account occurs in both calls, and each call's batch
\* creates and uses the account of its own signer.
Passes(p) ==
    { stack[p][i] : i \in { j \in 1..Depth(p) :
                              /\ stack[p][j].fn = "swapDirectIxs"
                              /\ stack[p][j].looked
                              /\ stack[p][j].found = <<>> } }

KeysOf(f) ==
    { f.signers[i] : i \in 1..Len(f.signers) }
    \cup { f.ixs[i].newAccount : i \in IndexesOfType(f.ixs, "createAccount") }

C11_ConcurrentCallsShareNothing ==
    /\ \A p \in Procs :
          \A f \in Passes(p) :
             /\ Len(f.signers) = 1
             /\ f.openOrders = Some(f.signers[1])
             /\ ReturnedFrom(f) =>
                   /\ Len(f.ixs) = 2
                   /\ f.ixs[1].newAccount = f.signers[1]
                   /\ f.ixs[2].openOrders = f.signers[1]
    /\ \A p, q \in Procs :
          p # q =>
             \A f \in Passes(p), g \in Passes(q) : KeysOf(f) \cap KeysOf(g) = {}

C11_Witness ==
    \E f \in Passes("a"), g \in Passes("b") :
        /\ ReturnedFrom(f)
        /\ ReturnedFrom(g)
        /\ f.signers # g.signers
        /\ f.ixs[1].newAccount # g.ixs[1].newAccount

\* C12: swapIxs and estimate never invoke provider.send; swap invokes it at
\* most once, only with the complete batch and signer set that swapIxs
\* returned, and exactly once when it succeeds.
C12_SendOnlyFromSwapOnce ==
    \A p \in Procs :
        Depth(p) >= 1 =>
            LET f == stack[p][1]
            IN  /\ f.fn \in {"swapIxs", "estimate"} => stats[p].sends = 0
                /\ f.fn = "swap" =>
                      /\ stats[p].sends <= 1
                      /\ stats[p].sends = 1 <=> f.pc \in {"awaitSend", "done"} /\ f.built
                      /\ ReturnedFrom(f) => stats[p].sends = 1
                      /\ stats[p].sends = 1 =>
                            /\ Depth(p) = 1
                            /\ Cardinality(IndexesOfType(f.ixs, "swap")) = 1
                            /\ f.ixs[Len(f.ixs)].type = "swap"
                            /\ f.signers = Created(f.ixs)

C12_Witness ==
    \E p \in Procs :
        /\ Depth(p) = 1
        /\ stack[p][1].fn = "swap"
        /\ ReturnedFrom(stack[p][1])
        /\ stack[p][1].params.minExpectedSwapAmount = None
        /\ stats[p].sims = 1
        /\ stats[p].sends = 1

\* Calls of swap, by task.
SwapCalls == { p \in Procs : Depth(p) >= 1 /\ stack[p][1].fn = "swap" }

\* C13: in a swap call the open-orders lookup is performed exactly once and at
\* most one keypair is minted, also when minExpectedSwapAmount is omitted.
C13_OneLookupOneMintPerSwap ==
    \A p \in SwapCalls :
        /\ stats[p].lookups <= 1
        /\ stats[p].mints <= 1
        /\ ReturnedFrom(stack[p][1]) => stats[p].lookups = 1

\* C13 as amended: the lookup is performed exactly once per builder pass and
\* at most one keypair is minted per pass; a swap call with the minimum
\* supplied makes one pass, a swap call with the minimum omitted makes the
\* estimator's pass and then the final one (two lookups, at most two keypairs).
C13_OneLookupOneMintPerPass ==
    \A p \in SwapCalls :
        LET f == stack[p][1]
        IN  /\ stats[p].lookups <= 2
            /\ stats[p].mints <= stats[p].lookups
            /\ f.params.minExpectedSwapAmount # None =>
                  /\ stats[p].lookups <= 1
                  /\ ReturnedFrom(f) => stats[p].lookups = 1
            /\ (f.params.minExpectedSwapAmount = None /\ ReturnedFrom(f)) =>
                  stats[p].lookups = 2
            /\ \A i \in 2..Depth(p) :
                  stack[p][i].fn = "swapDirectIxs" =>
                      LET pass == stack[p][i]
                          earlier == IF stack[p][i - 1].estimated # None THEN 1 ELSE 0
                      IN  /\ Len(pass.signers) <= 1
                          /\ pass.pc \in {"loadMarket", "vault", "findOpenOrders"} =>
                                stats[p].lookups = earlier
                          /\ pass.looked =>
                                /\ stats[p].lookups = earlier + 1
                                /\ stats[p].mints <= earlier + 1

C13_Witness ==
    \E p \in SwapCalls :
        /\ ReturnedFrom(stack[p][1])
        /\ stack[p][1].params.minExpectedSwapAmount = None
        /\ stats[p].lookups = 2
        /\ stats[p].mints = 2

\* C14: a returned batch never holds an account-closing instruction; it is
\* [swap], or [create-open-orders, swap] when the call created the account.
AllReturnedBatches ==
    { f \in FramesOf("swapDirectIxs") \cup FramesOf("swapIxs") : ReturnedFrom(f) }
    \cup { f \in FramesOf("swap") \cup FramesOf("estimate") : f.built }

C14_NoCloseInstruction ==
    \A f \in AllReturnedBatches :
        /\ \A i \in 1..Len(f.ixs) : f.ixs[i].type # "closeAccount"
        /\ Len(f.ixs) \in {1, 2}
        /\ Len(f.ixs) = 1 => f.ixs[1].type = "swap" /\ f.signers = <<>>
        /\ Len(f.ixs) = 2 =>
              /\ f.ixs[1].type = "createAccount"
              /\ f.ixs[2].type = "swap"
              /\ Len(f.signers) = 1

C14_Witness ==
    \E f \in FramesOf("swap") :
        /\ ReturnedFrom(f)
        /\ Len(f.ixs) = 2
        /\ f.ixs[1].type = "createAccount"
        /\ f.ixs[2].type = "swap"

\* C15: the order-payer token account of the swap instruction is the pc
\* (quote) wallet when the side is bid and the coin (base) wallet when the
\* side is ask.
C15_OrderPayerBySide ==
    \A f \in BuiltBatches :
        LET ix == SwapIxOf(f.ixs)
        IN  /\ ix.side = f.args.side
            /\ ix.pcWallet = f.args.pcWallet
            /\ ix.coinWallet = f.args.coinWallet
            /\ f.args.side = "bid" => ix.orderPayerTokenAccount = f.args.pcWallet
            /\ f.args.side = "ask" => ix.orderPayerTokenAccount = f.args.coinWallet

C15_Witness ==
    \E f \in BuiltBatches :
        /\ f.args.side = "ask"
        /\ SwapIxOf(f.ixs).orderPayerTokenAccount = f.args.coinWallet
        /\ f.args.coinWallet # f.args.pcWallet

\* Passes whose lookup returned one or more accounts.
FoundPasses == { f \in FramesOf("swapDirectIxs") : f.looked /\ f.found # <<>> }

FirstFoundIsUsed ==
    \A f \in FoundPasses :
        /\ f.openOrders = Some(f.found[1])
        /\ f.signers = <<>>
        /\ ReturnedFrom(f)
        /\ Len(f.ixs) = 1
        /\ f.ixs[1].type = "swap"
        /\ f.ixs[1].openOrders = f.found[1]

LookupMutatesNothing ==
    \A p \in Procs :
        (TopIs(p, "swapDirectIxs", "findOpenOrders") /\ stack'[p] # stack[p]) =>
            /\ chain' = chain
            /\ chain # <<>> => minted' = minted /\ stats'[p].mints = stats[p].mints

\* C16: when the open-orders query returns a non-empty list, of any length,
\* the swap instruction references its first entry; the lookup creates no
\* account and changes nothing on chain.
C16_FirstOpenOrdersUsed == []FirstFoundIsUsed /\ [][LookupMutatesNothing]_vars

C16_Witness ==
    \E f \in FoundPasses :
        /\ Len(f.found) >= 2
        /\ f.found[1] # f.found[Len(f.found)]
        /\ ReturnedFrom(f)
        /\ f.ixs[1].openOrders = f.found[1]

\* Steps an activation still has to take, its future callees included.
Remaining(f) ==
    CASE f.pc = "done" -> 0
      [] f.fn = "swapDirectIxs" ->
            (CASE f.pc = "loadMarket" -> 4
               [] f.pc = "vault" -> 3
               [] f.pc = "findOpenOrders" -> 2
               [] f.pc = "createAccount" -> 1)
      [] f.fn = "swapIxs" ->
            (CASE f.pc = "start" -> IF f.minExpectedSwapAmount = None THEN 20 ELSE 8
               [] f.pc = "awaitEstimate" -> 8
               [] f.pc = "fromWallet" -> 7
               [] f.pc = "toWallet" -> 6
               [] f.pc = "awaitDirect" -> 1)
      [] f.fn = "estimate" ->
            (CASE f.pc = "start" -> 11
               [] f.pc = "awaitSwapIxs" -> 2
               [] f.pc = "awaitSimulate" -> 1)
      [] f.fn = "swap" ->
            (CASE f.pc = "start" -> 23
               [] f.pc = "awaitSwapIxs" -> 2
               [] f.pc = "awaitSend" -> 1)

RECURSIVE RemainingSum(_)
RemainingSum(frames) ==
    IF frames = <<>> THEN 0 ELSE Remaining(Head(frames)) + RemainingSum(Tail(frames))

Rank(frames) == 2 * RemainingSum(frames) + Len(frames)

EstimatesIn(p) == { i \in 1..Depth(p) : stack[p][i].fn = "estimate" }

BoundedRecursion ==
    \A p \in Procs :
        /\ Depth(p) <= 5
        /\ Cardinality(EstimatesIn(p)) <= 1
        /\ \A i \in EstimatesIn(p) :
              \A j \in (i + 1)..Depth(p) :
                 stack[p][j].fn = "swapIxs" =>
                     /\ stack[p][j].params.minExpectedSwapAmount = Some(1)
                     /\ stack[p][j].pc # "awaitEstimate"
        /\ stats[p].sims <= 1
        /\ ~Idle(p) => ENABLED Step(p)
        /\ (p \in SwapCalls /\ stack[p][1].params.minExpectedSwapAmount = None) =>
              /\ stats[p].sends >= 1 => stats[p].sims = 1
              /\ ReturnedFrom(stack[p][1]) => stats[p].sims = 1 /\ stats[p].sends = 1
              /\ (Depth(p) >= 2 /\ stack[p][2].estimated # None) =>
                    /\ stats[p].sims = 1
                    /\ stats[p].sends = 0
                    /\ EstimatesIn(p) = {}
              /\ (Depth(p) >= 3 /\ stack[p][3].fn = "swapDirectIxs") =>
                    stack[p][2].estimated # None

EveryStepDescends ==
    \A p \in Procs :
        (stack'[p] # stack[p] /\ ~Idle(p)) => Rank(stack'[p]) < Rank(stack[p])

\* C17: estimate never starts a nested estimate, so the call depth is bounded;
\* a swap call with the minimum omitted simulates exactly once, before the
\* final batch is built and before its single submission; every activation
\* can step until it settles and every step brings the call nearer its end.
C17_BoundedRecursionAndTermination == []BoundedRecursion /\ [][EveryStepDescends]_vars

C17_Witness ==
    \E p \in SwapCalls :
        /\ stack[p][1].params.minExpectedSwapAmount = None
        /\ ReturnedFrom(stack[p][1])
        /\ stats[p].sims = 1
        /\ stats[p].sends = 1
        /\ stats[p].lookups = 2

\* Batches outside the estimator: returned to the caller or handed to send.
CallerBatches(p) ==
    { stack[p][i] : i \in { j \in 1..Depth(p) :
        /\ \A k \in 1..j : stack[p][k].fn # "estimate"
        /\ \/ stack[p][j].fn = "swap" /\ stack[p][j].built
           \/ stack[p][j].fn \in {"swapIxs", "swapDirectIxs"} /\ ReturnedFrom(stack[p][j]) } }

SimulatedKeys(p) == { stats[p].simulated[i] : i \in 1..Len(stats[p].simulated) }

\* C18: in a batch that creates an open-orders account the one signer is the
\* account the creation instruction creates and the swap instruction uses;
\* a keypair of the estimator's simulated batch is in no batch returned to
\* the caller or submitted, whatever the chain held at either lookup.
C18_SignerIsCreatedAccountNotEstimators ==
    \A p \in Procs :
        \A f \in CallerBatches(p) :
            /\ IndexesOfType(f.ixs, "createAccount") # {} =>
                  /\ Len(f.signers) = 1
                  /\ IndexesOfType(f.ixs, "createAccount") = {1}
                  /\ f.ixs[1].newAccount = f.signers[1]
                  /\ SwapIxOf(f.ixs).openOrders = f.signers[1]
            /\ KeysOf(f) \cap SimulatedKeys(p) = {}
            /\ SwapIxOf(f.ixs).openOrders \notin SimulatedKeys(p)

C18_Witness ==
    \E p \in SwapCalls :
        \E f \in CallerBatches(p) :
            /\ f.fn = "swap"
            /\ SimulatedKeys(p) # {}
            /\ Len(f.signers) = 1
            /\ f.signers[1] \notin SimulatedKeys(p)
            /\ SwapIxOf(f.ixs).openOrders = f.signers[1]

\* C19: whatever the mints of the request, the swap instruction has side bid,
\* the source wallet (fromWallet, else the associated account of fromMint) as
\* pc wallet and order payer and the destination wallet (toWallet, else the
\* associated account of toMint) as coin wallet; no pass runs with side ask.
C19_AlwaysBidFromSourceWallet ==
    /\ \A f \in FramesOf("swapDirectIxs") : f.args.side = "bid"
    /\ \A f \in FramesOf("swapIxs") :
          ReturnedFrom(f) =>
              LET ix == SwapIxOf(f.ixs)
                  source == IF f.params.fromWallet # None
                            THEN Get(f.params.fromWallet)
                            ELSE Addr("ata", f.params.fromMint)
                  destination == IF f.params.toWallet # None
                                 THEN Get(f.params.toWallet)
                                 ELSE Addr("ata", f.params.toMint)
              IN  /\ ix.side = "bid"
                  /\ ix.pcWallet = source
                  /\ ix.orderPayerTokenAccount = source
                  /\ ix.coinWallet = destination

C19_Witness ==
    \E f \in FramesOf("swapIxs") :
        /\ ReturnedFrom(f)
        /\ f.params.fromMint = 2
        /\ f.params.toMint = 1
        /\ f.params.fromWallet = None
        /\ SwapIxOf(f.ixs).side = "bid"
        /\ SwapIxOf(f.ixs).orderPayerTokenAccount = Addr("ata", 2)
        /\ SwapIxOf(f.ixs).coinWallet = Addr("ata", 1)

====
